---- MODULE Spec2Model ----
(***************************************************************************)
(* Compressed sparse row / column matrices (sprs, src/sparse/csmat.rs).    *)
(*                                                                         *)
(* A matrix is the record                                                  *)
(*   [storage, nrows, ncols, indptr, indices, data]                        *)
(* of the CsMat struct.  Rust slices are 0-based; TLA+ sequences are       *)
(* 1-based, so the element the code calls s[i] is At(s, i) = s[i + 1].     *)
(***************************************************************************)
EXTENDS Integers, Sequences, FiniteSets, TLC

VARIABLES mat, old, call, ents, handle, iter, ret

vars == <<mat, old, call, ents, handle, iter, ret>>

(* ------------------------------ bounds --------------------------------- *)
\* largest row index an operation is called with
MaxRow == 2
\* largest column index an operation is called with
MaxCol == 1
\* insert is not called on a matrix that already stores MaxNnz entries
MaxNnz == 3
\* stored values are drawn from 1..MaxVal
MaxVal == 2
\* the first offset of a matrix built by new / new_csc is at most MaxFirst
MaxFirst == 1
\* caller-supplied buffers: each dimension of the shape is at most MaxDim,
\* indptr holds at most MaxDim + 2 offsets
MaxDim == 2
\* caller-supplied buffers: indices and data hold at most MaxLen elements,
\* an offset is at most MaxLen + 1
MaxLen == 2
\* outer_block_iter is called with a block size of at most MaxBlock
MaxBlock == 4
\* the identities eye(0) .. eye(MaxEye) are iterated by blocks
MaxEye == 5

Rows == 0..MaxRow
Cols == 0..MaxCol
Vals == 1..MaxVal

(* ------------------------- CompressedStorage --------------------------- *)
CSR == "CSR"
CSC == "CSC"

other_storage(s) == IF s = CSR THEN CSC ELSE CSR

outer_dimension(storage, rows, cols) == IF storage = CSR THEN rows ELSE cols

inner_dimension(storage, rows, cols) == IF storage = CSR THEN cols ELSE rows

(* --------------------------- slice helpers ----------------------------- *)
At(s, i) == s[i + 1]

Last(s) == s[Len(s)]

\* s[a..b] of the code: the elements at 0-based positions a, ..., b-1
Slice(s, a, b) == SubSeq(s, a + 1, b)

\* Vec::insert(ind, x): x ends up at 0-based position ind
VecInsert(s, ind, x) == SubSeq(s, 1, ind) \o <<x>> \o SubSeq(s, ind + 1, Len(s))

\* vec![x; n]
Repeat(x, n) == [k \in 1..n |-> x]

\* slice::binary_search on the slice s: Ok(ind) or Err(ind)
RECURSIVE bisect(_, _, _, _)
bisect(s, x, lo, hi) ==
  IF lo >= hi THEN [ok |-> FALSE, ind |-> lo]
  ELSE LET mid == lo + ((hi - lo) \div 2) IN
       IF At(s, mid) = x THEN [ok |-> TRUE, ind |-> mid]
       ELSE IF At(s, mid) < x THEN bisect(s, x, mid + 1, hi)
       ELSE bisect(s, x, lo, mid)

binary_search(s, x) == bisect(s, x, 0, Len(s))

(* ------------------------------ accessors ------------------------------ *)
outer_dims(m) == outer_dimension(m.storage, m.nrows, m.ncols)

inner_dims(m) == IF m.storage = CSC THEN m.nrows ELSE m.ncols

nnz(m) == Last(m.indptr)

shape(m) == <<m.nrows, m.ncols>>

set_outer_dims(m, n) ==
  IF m.storage = CSR THEN [m EXCEPT !.nrows = n] ELSE [m EXCEPT !.ncols = n]

set_inner_dims(m, n) ==
  IF m.storage = CSR THEN [m EXCEPT !.ncols = n] ELSE [m EXCEPT !.nrows = n]

(* ------------------------------ constructors --------------------------- *)
empty(storage, inner_size) ==
  [storage |-> storage,
   nrows   |-> IF storage = CSR THEN 0 ELSE inner_size,
   ncols   |-> IF storage = CSR THEN inner_size ELSE 0,
   indptr  |-> <<0>>,
   indices |-> <<>>,
   data    |-> <<>>]

zero(rows, cols) ==
  [storage |-> CSR,
   nrows   |-> rows,
   ncols   |-> cols,
   indptr  |-> Repeat(0, rows + 1),
   indices |-> <<>>,
   data    |-> <<>>]

\* eye(dim): the identity in CSR storage, every value N::one()
eye(dim) ==
  [storage |-> CSR,
   nrows   |-> dim,
   ncols   |-> dim,
   indptr  |-> [k \in 1..(dim + 1) |-> k - 1],
   indices |-> [k \in 1..dim |-> k - 1],
   data    |-> Repeat(1, dim)]

(* ------------------------ the sparse vector (CsVec) -------------------- *)
\* outer_view(i): None (here NoView) past the outer dimension, otherwise the
\* view over indptr[i]..indptr[i+1] of indices and data
NoView == [some |-> FALSE, indices |-> <<>>, data |-> <<>>]

outer_view(m, i) ==
  IF i >= outer_dims(m) THEN NoView
  ELSE LET start == At(m.indptr, i)
           stop  == At(m.indptr, i + 1)
       IN [some    |-> TRUE,
           indices |-> Slice(m.indices, start, stop),
           data    |-> Slice(m.data, start, stop)]

\* outer_view(i) aborts: indexing indptr or slicing indices and data fails
outer_view_panics(m, i) ==
  /\ i < outer_dims(m)
  /\ \/ i + 2 > Len(m.indptr)
     \/ At(m.indptr, i) > At(m.indptr, i + 1)
     \/ At(m.indptr, i + 1) > Len(m.indices)
     \/ At(m.indptr, i + 1) > Len(m.data)

\* CsVec::nnz_index(index): position of index within the vector's own
\* indices, found by binary search
NoIndex == [some |-> FALSE, ind |-> 0]

vec_nnz_index(vec, index) ==
  LET loc == binary_search(vec.indices, index) IN
  IF loc.ok THEN [some |-> TRUE, ind |-> loc.ind] ELSE NoIndex

\* CsVec::get_(index)
NoVal == 0

vec_get(vec, index) ==
  LET pos == vec_nnz_index(vec, index) IN
  IF pos.some THEN At(vec.data, pos.ind) ELSE NoVal

(* --------------------------------- get --------------------------------- *)
get_outer_inner(m, outer_ind, inner_ind) ==
  LET vec == outer_view(m, outer_ind) IN
  IF vec.some THEN vec_get(vec, inner_ind) ELSE NoVal

get_panics(m, i, j) ==
  outer_view_panics(m, outer_dimension(m.storage, i, j))

\* get(i, j): NoVal stands for None, v for Some(v)
get_unswapped(m, i, j) == get_outer_inner(m, i, j)

get(m, i, j) ==
  IF m.storage = CSR THEN get_outer_inner(m, i, j)
  ELSE get_outer_inner(m, j, i)

nnz_index_outer_inner_local(m, outer_ind, inner_ind) ==
  IF outer_ind >= outer_dims(m) THEN NoIndex
  ELSE LET vec == outer_view(m, outer_ind)
       IN IF vec.some THEN vec_nnz_index(vec, inner_ind) ELSE NoIndex

nnz_index_outer_inner(m, outer_ind, inner_ind) ==
  IF outer_ind >= outer_dims(m) THEN NoIndex
  ELSE LET offset == At(m.indptr, outer_ind)
           vec    == outer_view(m, outer_ind)
           pos    == IF vec.some THEN vec_nnz_index(vec, inner_ind)
                     ELSE NoIndex
       IN IF pos.some THEN [some |-> TRUE, ind |-> pos.ind + offset]
          ELSE NoIndex

nnz_index(m, row, col) ==
  IF m.storage = CSR THEN nnz_index_outer_inner(m, row, col)
  ELSE nnz_index_outer_inner(m, col, row)

(* -------------------------------- insert ------------------------------- *)
\* the tail of insert_outer_inner: grow the inner dimension when needed
grow_inner_dims_gt(m, inner_ind) ==
  IF inner_ind > inner_dims(m) THEN set_inner_dims(m, inner_ind + 1) ELSE m

grow_inner_dims(m, inner_ind) ==
  IF inner_ind >= inner_dims(m) THEN set_inner_dims(m, inner_ind + 1) ELSE m

\* the offsets k in (outer_ind + 1)..(outer_dims + 1) are incremented
shift_indptr_short(indptr, outer_ind, od) ==
  [k \in 1..Len(indptr) |->
     IF (k - 1) >= outer_ind + 1 /\ (k - 1) < od
     THEN indptr[k] + 1 ELSE indptr[k]]

shift_indptr_from(indptr, outer_ind, od) ==
  [k \in 1..Len(indptr) |->
     IF (k - 1) >= outer_ind /\ (k - 1) < od + 1
     THEN indptr[k] + 1 ELSE indptr[k]]

shift_indptr(indptr, outer_ind, od) ==
  [k \in 1..Len(indptr) |->
     IF (k - 1) >= outer_ind + 1 /\ (k - 1) < od + 1
     THEN indptr[k] + 1 ELSE indptr[k]]

\* outer_ind >= outer_dims: add outer slices up to outer_ind, push the entry
insert_new_outer(m, outer_ind, inner_ind, val) ==
  LET od       == outer_dims(m)
      last_nnz == Last(m.indptr)
      padded   == m.indptr \o Repeat(last_nnz, outer_ind - od)
      m1       == set_outer_dims(m, outer_ind + 1)
  IN [m1 EXCEPT !.indptr  = Append(padded, last_nnz + 1),
                !.indices = Append(@, inner_ind),
                !.data    = Append(@, val)]

\* Ok(ind): overwrite the value found at start + ind
insert_overwrite_local(m, start, ind, val) ==
  [m EXCEPT !.data[ind + 1] = val]

insert_overwrite(m, start, ind, val) ==
  [m EXCEPT !.data[start + ind + 1] = val]

\* Err(ind): splice the entry in at start + ind and shift the later offsets
insert_splice_at_start(m, outer_ind, start, ind, inner_ind, val) ==
  [m EXCEPT !.indices = VecInsert(@, start, inner_ind),
            !.data    = VecInsert(@, start, val),
            !.indptr  = shift_indptr(@, outer_ind, outer_dims(m))]

insert_splice(m, outer_ind, start, ind, inner_ind, val) ==
  [m EXCEPT !.indices = VecInsert(@, start + ind, inner_ind),
            !.data    = VecInsert(@, start + ind, val),
            !.indptr  = shift_indptr(@, outer_ind, outer_dims(m))]

insert_outer_inner_always_splice(m, outer_ind, inner_ind, val) ==
  IF outer_ind >= outer_dims(m)
  THEN grow_inner_dims(insert_new_outer(m, outer_ind, inner_ind, val),
                       inner_ind)
  ELSE LET start    == At(m.indptr, outer_ind)
           stop     == At(m.indptr, outer_ind + 1)
           location == binary_search(Slice(m.indices, start, stop), inner_ind)
       IN grow_inner_dims(
            insert_splice(m, outer_ind, start, location.ind, inner_ind, val),
            inner_ind)

insert_outer_inner(m, outer_ind, inner_ind, val) ==
  IF outer_ind >= outer_dims(m)
  THEN grow_inner_dims(insert_new_outer(m, outer_ind, inner_ind, val),
                       inner_ind)
  ELSE LET start    == At(m.indptr, outer_ind)
           stop     == At(m.indptr, outer_ind + 1)
           location == binary_search(Slice(m.indices, start, stop), inner_ind)
       IN IF location.ok
          THEN insert_overwrite(m, start, location.ind, val)
          ELSE grow_inner_dims(
                 insert_splice(m, outer_ind, start, location.ind,
                               inner_ind, val),
                 inner_ind)

insert(m, row, col, val) ==
  IF m.storage = CSR THEN insert_outer_inner(m, row, col, val)
  ELSE insert_outer_inner(m, col, row, val)

(* --------------------- check_compressed_structure ---------------------- *)
\* width of the index type (usize), scaled down
IndexBits == 8

usize_max == (2 ^ IndexBits) - 1

StrictlyAscending(s) == \A k \in 1..(Len(s) - 1) : s[k] < s[k + 1]

Monotonic(s) == \A k \in 1..(Len(s) - 1) : s[k] <= s[k + 1]

SeqMax(s) == CHOOSE x \in {s[k] : k \in 1..Len(s)} :
               \A k \in 1..Len(s) : s[k] <= x

\* CsVec::check_structure on one outer slice of inner dimension dim
vec_check_structure(indices, dim) ==
  IF ~StrictlyAscending(indices) THEN "NonSortedIndices"
  ELSE IF \E k \in 1..Len(indices) : indices[k] >= dim THEN "OutOfBounds"
  ELSE "Ok"

\* the first outer slice, from o on, whose check fails decides the result
check_slices_first(m, o) ==
  IF o >= Len(m.indptr) - 1 THEN "Ok"
  ELSE vec_check_structure(
         Slice(m.indices, At(m.indptr, o), At(m.indptr, o + 1)),
         inner_dims(m))

RECURSIVE check_slices(_, _)
check_slices(m, o) ==
  IF o >= Len(m.indptr) - 1 THEN "Ok"
  ELSE LET res == vec_check_structure(
                    Slice(m.indices, At(m.indptr, o), At(m.indptr, o + 1)),
                    inner_dims(m))
       IN IF res # "Ok" THEN res ELSE check_slices(m, o + 1)

\* a validator without the bound of half the index range on the offsets
check_compressed_structure_unguarded(m) ==
  IF Len(m.indptr) # outer_dims(m) + 1 THEN "panic"
  ELSE IF Len(m.indices) # Len(m.data) THEN "panic"
  ELSE IF Len(m.indices) # nnz(m) THEN "panic"
  ELSE IF SeqMax(m.indptr) > Len(m.indices) THEN "panic"
  ELSE IF ~Monotonic(m.indptr) THEN "UnsortedIndptr"
  ELSE check_slices(m, 0)

\* "panic", an Err name, or "Ok"
check_compressed_structure_unsorted(m) ==
  IF Len(m.indptr) # outer_dims(m) + 1 THEN "panic"
  ELSE IF Len(m.indices) # Len(m.data) THEN "panic"
  ELSE IF Len(m.indices) # nnz(m) THEN "panic"
  ELSE IF SeqMax(m.indptr) > Len(m.indices) THEN "panic"
  ELSE IF SeqMax(m.indptr) > usize_max \div 2 THEN "panic"
  ELSE check_slices(m, 0)

check_compressed_structure(m) ==
  IF Len(m.indptr) # outer_dims(m) + 1 THEN "panic"
  ELSE IF Len(m.indices) # Len(m.data) THEN "panic"
  ELSE IF Len(m.indices) # nnz(m) THEN "panic"
  ELSE IF SeqMax(m.indptr) > Len(m.indices) THEN "panic"
  ELSE IF SeqMax(m.indptr) > usize_max \div 2 THEN "panic"
  ELSE IF ~Monotonic(m.indptr) THEN "UnsortedIndptr"
  ELSE check_slices(m, 0)

(* ------------------------- owned construction -------------------------- *)
\* utils::sort_indices_data_slices: sort one slice by index, the data
\* following their indices (stable)
RECURSIVE sort_pairs(_, _, _, _)
sort_pairs(indices, data, done_i, done_d) ==
  IF indices = <<>> THEN [indices |-> done_i, data |-> done_d]
  ELSE LET x   == Head(indices)
           pos == Cardinality({k \in 1..Len(done_i) : done_i[k] <= x})
       IN sort_pairs(Tail(indices), Tail(data),
                     VecInsert(done_i, pos, x),
                     VecInsert(done_d, pos, Head(data)))

sort_indices_data_slices(indices, data) == sort_pairs(indices, data, <<>>, <<>>)

\* s with the elements at 0-based positions start.. replaced by t
Overwrite(s, start, t) ==
  [k \in 1..Len(s) |->
     IF k > start /\ k <= start + Len(t) THEN t[k - start] ELSE s[k]]

\* slicing indices or data by a window of indptr aborts
sort_indices_panics(m) ==
  \E k \in 1..(Len(m.indptr) - 1) :
    \/ m.indptr[k] > m.indptr[k + 1]
    \/ m.indptr[k + 1] > Len(m.indices)
    \/ m.indptr[k + 1] > Len(m.data)

sort_windows_first(m, o) ==
  IF o >= Len(m.indptr) - 1 THEN m
  ELSE LET start  == At(m.indptr, o)
           stop   == At(m.indptr, o + 1)
           sorted == sort_indices_data_slices(Slice(m.indices, start, stop),
                                              Slice(m.data, start, stop))
       IN [m EXCEPT !.indices = Overwrite(@, start, sorted.indices),
                    !.data    = Overwrite(@, start, sorted.data)]

RECURSIVE sort_windows(_, _)
sort_windows(m, o) ==
  IF o >= Len(m.indptr) - 1 THEN m
  ELSE LET start  == At(m.indptr, o)
           stop   == At(m.indptr, o + 1)
           sorted == sort_indices_data_slices(Slice(m.indices, start, stop),
                                              Slice(m.data, start, stop))
       IN sort_windows(
            [m EXCEPT !.indices = Overwrite(@, start, sorted.indices),
                      !.data    = Overwrite(@, start, sorted.data)],
            o + 1)

sort_indices(m) == sort_windows(m, 0)

\* new_: [res |-> "panic" | an Err name | "Ok", mat |-> the matrix when Ok]
new_(storage, rows, cols, indptr, indices, data) ==
  LET m == [storage |-> storage, nrows |-> rows, ncols |-> cols,
            indptr |-> indptr, indices |-> indices, data |-> data]
  IN IF indptr = <<>> \/ sort_indices_panics(m)
     THEN [res |-> "panic", mat |-> m]
     ELSE LET s == sort_indices(m) IN
          [res |-> check_compressed_structure(s), mat |-> s]

\* new and new_csc unwrap the result of new_: an Err aborts as well
new(rows, cols, indptr, indices, data) ==
  LET r == new_(CSR, rows, cols, indptr, indices, data) IN
  [panicked |-> r.res # "Ok", mat |-> r.mat]

new_csc(rows, cols, indptr, indices, data) ==
  LET r == new_(CSC, rows, cols, indptr, indices, data) IN
  [panicked |-> r.res # "Ok", mat |-> r.mat]

(* ----------------------- checked view construction --------------------- *)
\* new_view: [res |-> "panic" | an Err name | "Ok", mat |-> the view when Ok]
new_view(storage, rows, cols, indptr, indices, data) ==
  LET m == [storage |-> storage, nrows |-> rows, ncols |-> cols,
            indptr |-> indptr, indices |-> indices, data |-> data]
  IN [res |-> check_compressed_structure(m), mat |-> m]

(* ----------------------------- conversion ----------------------------- *)
\* the nonzeros in the order the nested loops over outer_iterator() and
\* vec.iter() visit them, from outer slice o on: the outer index and the
\* flat position of each
RECURSIVE visits_descending(_, _)
visits_descending(m, o) ==
  IF o >= Len(m.indptr) - 1 THEN <<>>
  ELSE LET start == At(m.indptr, o)
           stop  == At(m.indptr, o + 1)
       IN visits_descending(m, o + 1)
          \o [k \in 1..(stop - start) |-> [outer |-> o, pos |-> start + k - 1]]

RECURSIVE visits(_, _)
visits(m, o) ==
  IF o >= Len(m.indptr) - 1 THEN <<>>
  ELSE LET start == At(m.indptr, o)
           stop  == At(m.indptr, o + 1)
       IN [k \in 1..(stop - start) |-> [outer |-> o, pos |-> start + k - 1]]
          \o visits(m, o + 1)

\* first loop: indptr[inner_dim] += 1 for every nonzero
RECURSIVE count_pass(_, _, _)
count_pass(indptr, in_indices, todo) ==
  IF todo = <<>> THEN indptr
  ELSE count_pass([indptr EXCEPT ![At(in_indices, Head(todo).pos) + 1] = @ + 1],
                  in_indices, Tail(todo))

\* second loop: exclusive prefix sum in place, from 0-based position i on
RECURSIVE cumsum_pass(_, _, _)
cumsum_pass(indptr, i, cumsum) ==
  IF i >= Len(indptr) THEN indptr
  ELSE cumsum_pass([indptr EXCEPT ![i + 1] = cumsum], i + 1,
                   cumsum + At(indptr, i))

\* third loop: write each nonzero at indptr[inner_dim], then advance it
RECURSIVE scatter_pass(_, _, _)
scatter_pass(out, m, todo) ==
  IF todo = <<>> THEN out
  ELSE LET inner_dim == At(m.indices, Head(todo).pos)
           dest      == At(out.indptr, inner_dim)
       IN scatter_pass(
            [indptr  |-> [out.indptr EXCEPT ![inner_dim + 1] = @ + 1],
             indices |-> [out.indices EXCEPT ![dest + 1] = Head(todo).outer],
             data    |-> [out.data EXCEPT ![dest + 1] =
                                             At(m.data, Head(todo).pos)]],
            m, Tail(todo))

\* last loop: every offset takes the value of its predecessor, the first 0
swap_pass(indptr) ==
  [k \in 1..Len(indptr) |-> IF k = 1 THEN 0 ELSE indptr[k - 1]]

\* convert_mat_storage does not abort: its assertions hold and every
\* indexing of indptr, indices and data is within the slice
convert_asserts(m, indptr, indices, data) ==
  /\ Len(indptr) = inner_dims(m) + 1
  /\ Len(indices) = Len(m.indices)
  /\ Len(data) = Len(m.data)
  /\ \A k \in 1..Len(indptr) : indptr[k] = 0
  /\ \A k \in 1..(Len(m.indptr) - 1) :
       /\ m.indptr[k] <= m.indptr[k + 1]
       /\ m.indptr[k + 1] <= Len(m.indices)
       /\ m.indptr[k + 1] <= Len(m.data)
  /\ \A k \in 1..Len(visits(m, 0)) :
       At(m.indices, visits(m, 0)[k].pos) < Len(indptr)
  /\ Last(cumsum_pass(count_pass(indptr, m.indices, visits(m, 0)), 0, 0))
       = nnz(m)

\* the output buffers [indptr, indices, data] when it does not abort
convert_mat_storage(m, indptr, indices, data) ==
  LET todo    == visits(m, 0)
      counts  == count_pass(indptr, m.indices, todo)
      starts  == cumsum_pass(counts, 0, 0)
      written == scatter_pass([indptr |-> starts, indices |-> indices,
                               data |-> data], m, todo)
  IN [written EXCEPT !.indptr = swap_pass(@)]

\* raw::convert_storage: the same on unchecked input
convert_storage(m, indptr, indices, data) ==
  convert_mat_storage(m, indptr, indices, data)

\* N::default()
DefaultVal == 0

to_other_storage_panics(m) ==
  ~convert_asserts(m, Repeat(0, inner_dims(m) + 1), Repeat(0, nnz(m)),
                   Repeat(DefaultVal, nnz(m)))

to_other_storage(m) ==
  LET out == convert_mat_storage(m, Repeat(0, inner_dims(m) + 1),
                                 Repeat(0, nnz(m)),
                                 Repeat(DefaultVal, nnz(m)))
  IN [storage |-> other_storage(m.storage),
      nrows   |-> m.nrows,
      ncols   |-> m.ncols,
      indptr  |-> out.indptr,
      indices |-> out.indices,
      data    |-> out.data]

(* --------------------------------- set --------------------------------- *)
\* set(row, col, val) aborts: the unwrap of the looked-up position fails
set_panics_outer_only(m, row, col) ==
  ~outer_view(m, outer_dimension(m.storage, row, col)).some

set_panics(m, row, col) ==
  LET outer == outer_dimension(m.storage, row, col)
      inner == inner_dimension(m.storage, row, col)
      vec   == outer_view(m, outer)
  IN ~vec.some \/ ~vec_nnz_index(vec, inner).some

\* the position set writes to: the one CsVec::nnz_index returned
set_position(m, row, col) ==
  LET outer == outer_dimension(m.storage, row, col)
      inner == inner_dimension(m.storage, row, col)
  IN vec_nnz_index(outer_view(m, outer), inner).ind

set(m, row, col, val) ==
  [m EXCEPT !.data[set_position(m, row, col) + 1] = val]

(* ------------------- access to the stored values ---------------------- *)
\* mat[NnzIndex(i)]: data().get(i).unwrap()
index_panics(m, i) == i >= Len(m.data)

index(m, i) == At(m.data, i)

\* mat[NnzIndex(i)] = val
index_mut(m, i, val) == [m EXCEPT !.data[i + 1] = val]

\* get_outer_inner_mut: the slot nnz_index_outer_inner finds, or None
get_outer_inner_mut(m, outer_ind, inner_ind) ==
  nnz_index_outer_inner(m, outer_ind, inner_ind)

\* *mat.get_mut(i, j)? = val: writes when get_mut returns Some
get_mut(m, i, j) ==
  IF m.storage = CSR THEN get_outer_inner_mut(m, i, j)
  ELSE get_outer_inner_mut(m, j, i)

\* scale(val): every stored value is multiplied by val
scale(m, val) == [m EXCEPT !.data = [k \in 1..Len(@) |-> @[k] * val]]

\* a loop over the stored values that starts after the first one
map_inplace_from_one(m, f) ==
  [m EXCEPT !.data = [k \in 1..Len(@) |-> IF k = 1 THEN @[k] ELSE f[@[k]]]]

\* map_inplace(f): every stored value v becomes f(v)
map_inplace(m, f) == [m EXCEPT !.data = [k \in 1..Len(@) |-> f[@[k]]]]

(* --------------------------- blocked iteration ------------------------ *)
\* middle_outer_views(i, count) aborts: "Empty view", the checked_add, or
\* "Out of bounds index"
middle_outer_views_panics(m, i, count) ==
  \/ count = 0
  \/ i + count > usize_max
  \/ i >= outer_dims(m)
  \/ i + count > outer_dims(m)

\* the view over the outer slices i .. i + count - 1; it keeps the whole
\* indices and data
middle_outer_views(m, i, count) ==
  [storage |-> m.storage,
   nrows   |-> count,
   ncols   |-> m.ncols,
   indptr  |-> Slice(m.indptr, i, i + count + 1),
   indices |-> m.indices,
   data    |-> m.data]

\* outer_block_iter(block_size): the iterator before its first next()
outer_block_iter(m, block_size) ==
  [active |-> TRUE, dims_in_bloc |-> block_size, bloc_count |-> 0,
   block_size |-> block_size, views |-> <<>>, done |-> FALSE,
   panicked |-> FALSE]

\* ChunkOuterBlocks::next on the iterator it over the matrix m: the
\* iterator afterwards; done when it returned None, otherwise the item is
\* appended to views
next(it, m) ==
  LET cur_dim == it.dims_in_bloc * it.bloc_count
      end_dim == it.dims_in_bloc + cur_dim
      last    == end_dim > outer_dims(m)
      count   == IF last THEN outer_dims(m) - cur_dim ELSE it.dims_in_bloc
      it1     == IF last THEN [it EXCEPT !.dims_in_bloc = 0] ELSE it
  IN IF it.dims_in_bloc = 0 THEN [it EXCEPT !.done = TRUE]
     ELSE IF middle_outer_views_panics(m, cur_dim, count)
     THEN [it1 EXCEPT !.panicked = TRUE]
     ELSE [it1 EXCEPT !.bloc_count = @ + 1,
                      !.views = Append(@, middle_outer_views(m, cur_dim,
                                                             count))]

(* ------------------------------ the machine ---------------------------- *)
NoCall == [op |-> "init", row |-> 0, col |-> 0, val |-> 0, panicked |-> FALSE]

NoEnts == [p \in Rows \X Cols |-> NoVal]

\* no NnzIndex has been taken; stale: a structural mutation followed it
NoHandle == [some |-> FALSE, ind |-> 0, row |-> 0, col |-> 0, stale |-> FALSE]

\* no ChunkOuterBlocks has been created; views: the items next() returned
NoIter == [active |-> FALSE, dims_in_bloc |-> 0, bloc_count |-> 0,
           block_size |-> 0, views |-> <<>>, done |-> FALSE,
           panicked |-> FALSE]

\* no call has returned a matrix or a view
NoRet == [storage |-> "none", nrows |-> 0, ncols |-> 0, indptr |-> <<>>,
          indices |-> <<>>, data |-> <<>>]

\* offsets new / new_csc does not reject: monotonic, the last one n; the
\* first one is drawn from 0..MaxFirst
Offsets(n_outer, n) ==
  {f \in [1..(n_outer + 1) -> 0..n] :
     f[1] <= MaxFirst /\ f[n_outer + 1] = n /\ Monotonic(f)}

\* the triplet inputs of new (CSR) and new_csc (CSC) within the bounds
RawInputs ==
  UNION {
    UNION {
      {[storage |-> st, nrows |-> r, ncols |-> c,
        indptr |-> ip, indices |-> ix, data |-> d] :
          ip \in Offsets(outer_dimension(st, r, c), n),
          ix \in [1..n -> 0..(inner_dimension(st, r, c) - 1)],
          d  \in [1..n -> Vals]} :
      n \in 0..MaxNnz} :
    st \in {CSR, CSC}, r \in 0..(MaxRow + 1), c \in 0..(MaxCol + 1)}

Constructed ==
  {new_(i.storage, i.nrows, i.ncols, i.indptr, i.indices, i.data) :
     i \in RawInputs}

InitMats ==
  {empty(CSR, k) : k \in 0..(MaxCol + 1)} \cup
  {empty(CSC, k) : k \in 0..(MaxRow + 1)} \cup
  {zero(r, c) : r \in 0..(MaxRow + 1), c \in 0..(MaxCol + 1)} \cup
  {n.mat : n \in {x \in Constructed : x.res = "Ok"}}

Init ==
  /\ mat \in InitMats
  /\ old = mat
  /\ call = NoCall
  /\ ents = NoEnts
  /\ handle = NoHandle
  /\ iter = NoIter
  /\ ret = NoRet

\* mat.insert(row, col, val)
Insert(row, col, val) ==
  /\ nnz(mat) < MaxNnz \/ get(mat, row, col) # NoVal
  /\ mat' = insert(mat, row, col, val)
  /\ old' = mat
  /\ call' = [op |-> "insert", row |-> row, col |-> col, val |-> val,
              panicked |-> FALSE]

InsertOp ==
  \E row \in Rows, col \in Cols, val \in Vals :
    Insert(row, col, val) /\ UNCHANGED <<ents, handle, iter, ret>>

\* mat.set(row, col, val)
Set ==
  \E row \in Rows, col \in Cols, val \in Vals :
    /\ mat' = IF set_panics(mat, row, col) THEN mat
              ELSE set(mat, row, col, val)
    /\ old' = mat
    /\ call' = [op |-> "set", row |-> row, col |-> col, val |-> val,
                panicked |-> set_panics(mat, row, col)]
    /\ UNCHANGED <<ents, handle, iter, ret>>

\* mat = mat.to_other_storage()
ToOtherStorage ==
  /\ mat' = IF to_other_storage_panics(mat) THEN mat
            ELSE to_other_storage(mat)
  /\ old' = mat
  /\ call' = [op |-> "to_other_storage", row |-> 0, col |-> 0, val |-> 0,
              panicked |-> to_other_storage_panics(mat)]
  /\ UNCHANGED <<ents, handle, iter, ret>>

Next == InsertOp \/ Set \/ ToOtherStorage

Spec == Init /\ [][Next]_vars

\* the same operations on matrices grown from empty and zero only
GrownInit ==
  /\ mat \in {empty(CSR, k) : k \in 0..(MaxCol + 1)} \cup
             {empty(CSC, k) : k \in 0..(MaxRow + 1)} \cup
             {zero(r, c) : r \in 0..(MaxRow + 1), c \in 0..(MaxCol + 1)}
  /\ old = mat
  /\ call = NoCall
  /\ ents = NoEnts
  /\ handle = NoHandle
  /\ iter = NoIter
  /\ ret = NoRet

SpecGrown == GrownInit /\ [][Next]_vars

(* ------------------- incremental build from empty ---------------------- *)
\* ents records the last value written at each position
BuildInit ==
  /\ mat \in {empty(CSR, 0), empty(CSC, 0)}
  /\ old = mat
  /\ call = NoCall
  /\ ents = NoEnts
  /\ handle = NoHandle
  /\ iter = NoIter
  /\ ret = NoRet

BuildInsert ==
  \E row \in Rows, col \in Cols, val \in Vals :
    /\ Insert(row, col, val)
    /\ ents' = [ents EXCEPT ![<<row, col>>] = val]
    /\ UNCHANGED <<handle, iter, ret>>

BuildNext == BuildInsert

SpecBuild == BuildInit /\ [][BuildNext]_vars

(* --------------------- conversion of unchecked input ------------------- *)
NoDuplicates(s) == \A j, k \in 1..Len(s) : j # k => s[j] # s[k]

\* inputs of convert_storage: offsets from 0, monotonic, to the number of
\* entries; indices within the inner dimension, in any order, none twice in
\* a slice
UncheckedInputs ==
  UNION {
    UNION {
      {m \in {[storage |-> st, nrows |-> r, ncols |-> c,
               indptr |-> ip, indices |-> ix, data |-> d] :
                 ip \in {f \in Offsets(outer_dimension(st, r, c), n) : f[1] = 0},
                 ix \in [1..n -> 0..(inner_dimension(st, r, c) - 1)],
                 d  \in [1..n -> Vals]} :
         \A o \in 0..(outer_dims(m) - 1) :
           NoDuplicates(Slice(m.indices, At(m.indptr, o), At(m.indptr, o + 1)))} :
      n \in 0..MaxNnz} :
    st \in {CSR, CSC}, r \in 0..(MaxRow + 1), c \in 0..(MaxCol + 1)}

ConvInit ==
  /\ mat \in UncheckedInputs
  /\ old = mat
  /\ call = NoCall
  /\ ents = NoEnts
  /\ handle = NoHandle
  /\ iter = NoIter
  /\ ret = NoRet

convert_storage_panics(m) ==
  ~convert_asserts(m, Repeat(0, inner_dims(m) + 1), Repeat(0, Len(m.indices)),
                   Repeat(DefaultVal, Len(m.data)))

\* convert_storage(storage, shape, indptr, indices, data, out buffers) with
\* zeroed output buffers of the lengths it asks for; mat becomes the output
ConvertStorage ==
  /\ mat' = IF convert_storage_panics(mat) THEN mat
            ELSE LET out == convert_storage(mat,
                                            Repeat(0, inner_dims(mat) + 1),
                                            Repeat(0, Len(mat.indices)),
                                            Repeat(DefaultVal, Len(mat.data)))
                 IN [storage |-> other_storage(mat.storage),
                     nrows   |-> mat.nrows,
                     ncols   |-> mat.ncols,
                     indptr  |-> out.indptr,
                     indices |-> out.indices,
                     data    |-> out.data]
  /\ old' = mat
  /\ call' = [op |-> "convert_storage", row |-> 0, col |-> 0, val |-> 0,
              panicked |-> convert_storage_panics(mat)]
  /\ UNCHANGED <<ents, handle, iter, ret>>

ConvNext == ConvertStorage

SpecConv == ConvInit /\ [][ConvNext]_vars

(* ---------------- construction from caller-supplied buffers ------------ *)
SeqsUpTo(S, n) == UNION {[1..k -> S] : k \in 0..n}

\* any buffers a caller can pass to new, new_csc and new_view, well formed
\* or not
OffsetSeqs == SeqsUpTo(0..(MaxLen + 1), MaxDim + 2)
IndexSeqs == SeqsUpTo(0..MaxDim, MaxLen)
DataSeqs == SeqsUpTo(Vals, MaxLen)

AnyInputs ==
  [storage : {CSR, CSC}, nrows : 0..MaxDim, ncols : 0..MaxDim,
   indptr : OffsetSeqs, indices : IndexSeqs, data : DataSeqs]

\* mat holds the buffers until a constructor is called on them
RawInit ==
  /\ mat \in AnyInputs
  /\ old = mat
  /\ call = NoCall
  /\ ents = NoEnts
  /\ handle = NoHandle
  /\ iter = NoIter
  /\ ret = NoRet

\* mat = CsMat::new(shape, indptr, indices, data), or new_csc
New ==
  /\ call.op = "init"
  /\ LET r == IF mat.storage = CSR
               THEN new(mat.nrows, mat.ncols, mat.indptr, mat.indices,
                        mat.data)
               ELSE new_csc(mat.nrows, mat.ncols, mat.indptr, mat.indices,
                            mat.data)
     IN /\ mat' = IF r.panicked THEN mat ELSE r.mat
        /\ call' = [op |-> "new", row |-> 0, col |-> 0, val |-> 0,
                    panicked |-> r.panicked]
  /\ old' = mat
  /\ UNCHANGED <<ents, handle, iter, ret>>

\* CsMat::new_view(storage, shape, indptr, indices, data); the buffers stay
\* as they are, Ok or not
NewView ==
  /\ call.op = "init"
  /\ LET r == new_view(mat.storage, mat.nrows, mat.ncols, mat.indptr,
                       mat.indices, mat.data)
     IN /\ mat' = IF r.res = "Ok" THEN r.mat ELSE mat
        /\ call' = [op |-> "new_view", row |-> 0, col |-> 0, val |-> 0,
                    panicked |-> r.res = "panic"]
  /\ old' = mat
  /\ UNCHANGED <<ents, handle, iter, ret>>

RawNext == New \/ NewView

SpecRaw == RawInit /\ [][RawNext]_vars

(* ------------------------------ the claims ----------------------------- *)
\* positions probed with get: every index in use and one past the largest
ProbeRows == 0..(MaxRow + 1)
ProbeCols == 0..(MaxCol + 1)

\* the index run of outer slice o
Run(m, o) == Slice(m.indices, At(m.indptr, o), At(m.indptr, o + 1))

\* the structural invariants
Structured(m) ==
  /\ Len(m.indptr) = outer_dims(m) + 1
  /\ Monotonic(m.indptr)
  /\ Last(m.indptr) = Len(m.indices)
  /\ Len(m.indices) = Len(m.data)
  /\ \A o \in 0..(outer_dims(m) - 1) :
       /\ StrictlyAscending(Run(m, o))
       /\ \A k \in 1..Len(Run(m, o)) : Run(m, o)[k] < inner_dims(m)

CallOuter == outer_dimension(old.storage, call.row, call.col)
CallInner == inner_dimension(old.storage, call.row, call.col)

Inserted == call.op = "insert"
InsertedFresh == Inserted /\ get(old, call.row, call.col) = NoVal
InsertedAgain == Inserted /\ get(old, call.row, call.col) # NoVal

\* C1: after insert(row, col, val) on a matrix that satisfies the structural
\* invariants (built by empty, zero, new or new_csc, or by earlier calls),
\* with any row and col, also beyond the dimensions, the matrix satisfies the
\* structural invariants again and passes check_compressed_structure
C1_InsertKeepsStructure ==
  Inserted => Structured(mat) /\ check_compressed_structure(mat) = "Ok"

\* an insert past both dimensions of a matrix that stores entries, and one
\* that skips an outer slice
C1_Witness ==
  /\ Inserted
  /\ Structured(old)
  /\ nnz(old) > 0
  /\ CallOuter > outer_dims(old)
  /\ CallInner >= inner_dims(old)

\* C6: insert(row, col, v) at a position that is not stored makes
\* get(row, col) = Some(v), grows nnz by one and leaves get(r, c) of every
\* other position as it was; in an existing outer slice the index is
\* spliced in at its sorted position and every later offset grows by one
C6_InsertFresh ==
  InsertedFresh =>
    /\ get(mat, call.row, call.col) = call.val
    /\ nnz(mat) = nnz(old) + 1
    /\ \A r \in ProbeRows, c \in ProbeCols :
         <<r, c>> # <<call.row, call.col>> => get(mat, r, c) = get(old, r, c)
    /\ CallOuter < outer_dims(old) =>
         LET run == Run(old, CallOuter)
             pos == At(old.indptr, CallOuter)
                      + Cardinality({k \in 1..Len(run) : run[k] < CallInner})
         IN /\ mat.indices = VecInsert(old.indices, pos, CallInner)
            /\ mat.data = VecInsert(old.data, pos, call.val)
            /\ Len(mat.indptr) = Len(old.indptr)
            /\ \A k \in 1..Len(old.indptr) :
                 mat.indptr[k] = old.indptr[k]
                                   + (IF k - 1 > CallOuter THEN 1 ELSE 0)

\* a splice in front of a stored entry of the same slice, with later slices
\* that hold entries
C6_Witness ==
  /\ InsertedFresh
  /\ CallOuter + 1 < outer_dims(old)
  /\ \E k \in 1..Len(Run(old, CallOuter)) : Run(old, CallOuter)[k] > CallInner
  /\ Len(Run(old, CallOuter + 1)) > 0

\* C7: insert(r, c, v2) at a stored position leaves get(r, c) = Some(v2),
\* keeps nnz, shape, indptr and indices, and changes no data entry other
\* than the one of (r, c)
C7_InsertOverwrite ==
  InsertedAgain =>
    /\ get(mat, call.row, call.col) = call.val
    /\ nnz(mat) = nnz(old)
    /\ shape(mat) = shape(old)
    /\ mat.storage = old.storage
    /\ mat.indptr = old.indptr
    /\ mat.indices = old.indices
    /\ Len(mat.data) = Len(old.data)
    /\ \A k \in 1..Len(old.data) :
         mat.data[k] # old.data[k] =>
           k - 1 = nnz_index(old, call.row, call.col).ind

\* an overwrite with another value, of an entry that is not the first of
\* the buffers, in a slice that does not start at 0
C7_Witness ==
  /\ InsertedAgain
  /\ get(old, call.row, call.col) # call.val
  /\ At(old.indptr, CallOuter) > 0
  /\ nnz_index(old, call.row, call.col).ind > At(old.indptr, CallOuter)

\* the inserted (outer, inner) pair is greater than every stored pair
InsertedInOrder ==
  /\ Inserted
  /\ \A o \in 0..(outer_dims(old) - 1) :
       \A k \in 1..Len(Run(old, o)) :
         \/ o < CallOuter
         \/ o = CallOuter /\ Run(old, o)[k] < CallInner

\* C8: when the inserted (outer, inner) pair is greater than every stored
\* pair, insert appends to indices and data, so every stored element keeps
\* its flat position, and no offset of an outer slice up to the inserted
\* one changes
C8_OrderedInsertAppends ==
  InsertedInOrder =>
    /\ mat.indices = Append(old.indices, CallInner)
    /\ mat.data = Append(old.data, call.val)
    /\ \A k \in 1..Len(old.indptr) :
         k - 1 <= CallOuter => mat.indptr[k] = old.indptr[k]

\* an in-order insert into the last stored slice, which already holds an
\* entry, followed by empty slices
C8_Witness ==
  /\ InsertedInOrder
  /\ CallOuter + 1 < outer_dims(old)
  /\ Len(Run(old, CallOuter)) > 0
  /\ At(old.indptr, CallOuter) > 0

WasSet == call.op = "set"

\* C9: set(row, col, v) at a stored position makes get(row, col) = Some(v),
\* keeps the value of every other stored entry and keeps indptr, indices,
\* nnz and shape
C9_SetWritesThePosition ==
  (WasSet /\ get(old, call.row, call.col) # NoVal) =>
    /\ ~call.panicked
    /\ get(mat, call.row, call.col) = call.val
    /\ \A r \in ProbeRows, c \in ProbeCols :
         <<r, c>> # <<call.row, call.col>> => get(mat, r, c) = get(old, r, c)
    /\ mat.indptr = old.indptr
    /\ mat.indices = old.indices
    /\ nnz(mat) = nnz(old)
    /\ shape(mat) = shape(old)

\* C10: set(row, col, v) at a position that is not stored, also one past
\* the dimensions, aborts; no set changes indptr, indices, nnz or shape, and
\* an aborted set changes no data entry
C10_SetNeverInserts ==
  WasSet =>
    /\ get(old, call.row, call.col) = NoVal => call.panicked
    /\ mat.storage = old.storage
    /\ mat.indptr = old.indptr
    /\ mat.indices = old.indices
    /\ nnz(mat) = nnz(old)
    /\ shape(mat) = shape(old)
    /\ Len(mat.data) = Len(old.data)
    /\ call.panicked => mat.data = old.data

\* a set past the row count of a matrix that stores entries, and one inside
\* the dimensions at a position that is not stored
C10_Witness ==
  /\ WasSet
  /\ call.panicked
  /\ nnz(old) > 0
  /\ CallOuter < outer_dims(old)
  /\ CallInner < inner_dims(old)
  /\ Len(Run(old, CallOuter)) > 0

Converted == call.op = "to_other_storage"

\* C2: for a matrix M that satisfies the structural invariants,
\* M.to_other_storage().to_other_storage() has the storage, shape, indptr,
\* indices and data of M, and get(r, c) agrees with M everywhere
C2_RoundTrip ==
  Converted =>
    /\ ~call.panicked
    /\ ~to_other_storage_panics(mat)
    /\ LET back == to_other_storage(mat) IN
       /\ back = old
       /\ \A r \in ProbeRows, c \in ProbeCols : get(back, r, c) = get(old, r, c)

\* C3: for a valid matrix M, C = M.to_other_storage() has the other
\* storage, the shape of M, nnz(C) = nnz(M) and get(C, r, c) = get(M, r, c)
\* at every position
C3_ConversionCorrect ==
  Converted =>
    /\ ~call.panicked
    /\ mat.storage = other_storage(old.storage)
    /\ shape(mat) = shape(old)
    /\ nnz(mat) = nnz(old)
    /\ \A r \in ProbeRows, c \in ProbeCols : get(mat, r, c) = get(old, r, c)

ConvertedUnchecked == call.op = "convert_storage"

\* the output slice of new outer index j
OutRun(j) == Slice(mat.indices, At(mat.indptr, j), At(mat.indptr, j + 1))

Written == {p \in DOMAIN ents : ents[p] # NoVal}

MaxOf(S) == CHOOSE x \in S : \A y \in S : y <= x

DirectRows == MaxOf({p[1] : p \in Written}) + 1
DirectCols == MaxOf({p[2] : p \in Written}) + 1

Entry(st, o, i) == IF st = CSR THEN ents[<<o, i>>] ELSE ents[<<i, o>>]

\* the inner indices written in outer slice o, from i downwards
RECURSIVE SliceDescending(_, _, _)
SliceDescending(st, o, i) ==
  IF i < 0 THEN <<>>
  ELSE (IF Entry(st, o, i) # NoVal THEN <<i>> ELSE <<>>)
       \o SliceDescending(st, o, i - 1)

\* the indices of the outer slices o .. od - 1, one slice after the other
RECURSIVE DirectIndices(_, _, _, _)
DirectIndices(st, o, od, id) ==
  IF o >= od THEN <<>>
  ELSE SliceDescending(st, o, id - 1) \o DirectIndices(st, o + 1, od, id)

RECURSIVE DirectData(_, _, _, _)
DirectData(st, o, od, id) ==
  IF o >= od THEN <<>>
  ELSE [k \in 1..Len(SliceDescending(st, o, id - 1)) |->
          Entry(st, o, SliceDescending(st, o, id - 1)[k])]
       \o DirectData(st, o + 1, od, id)

\* new (CSR) or new_csc (CSC) on the triplets of the written entries, the
\* slices given in descending order
Direct(st) ==
  LET od == outer_dimension(st, DirectRows, DirectCols)
      id == inner_dimension(st, DirectRows, DirectCols)
  IN new_(st, DirectRows, DirectCols,
          [k \in 1..(od + 1) |-> Len(DirectIndices(st, 0, k - 1, id))],
          DirectIndices(st, 0, od, id),
          DirectData(st, 0, od, id))

\* C5: after any sequence of inserts into empty(storage, 0) the matrix is
\* the one new / new_csc builds from the last value written at each
\* position, with shape (max row + 1, max col + 1)
C5_BuildEqualsDirect ==
  Inserted => Direct(mat.storage).res = "Ok" /\ Direct(mat.storage).mat = mat

\* three entries, the last one spliced in front of entries written earlier
C5_Witness ==
  /\ InsertedFresh
  /\ nnz(mat) = 3
  /\ nnz_index(mat, call.row, call.col).ind < 2

(* ----------------------- lookups and handles --------------------------- *)
\* every matrix the constructors give within the bounds, and the identities
LookupInit ==
  /\ mat \in InitMats \cup {eye(n) : n \in 0..MaxDim}
  /\ old = mat
  /\ call = NoCall
  /\ ents = NoEnts
  /\ handle = NoHandle
  /\ iter = NoIter
  /\ ret = NoRet

\* mat.get(row, col); call.val is the value returned, NoVal for None
Get ==
  \E row \in 0..(MaxRow + 1), col \in 0..(MaxCol + 1) :
    /\ call' = [op |-> "get", row |-> row, col |-> col,
                val |-> IF get_panics(mat, row, col) THEN NoVal
                        ELSE get(mat, row, col),
                panicked |-> get_panics(mat, row, col)]
    /\ old' = mat
    /\ UNCHANGED <<mat, ents, handle, iter, ret>>

\* handle = mat.nnz_index(row, col)
NnzIndexOp ==
  \E row \in 0..(MaxRow + 1), col \in 0..(MaxCol + 1) :
    /\ handle' = LET h == nnz_index(mat, row, col) IN
                 IF h.some
                 THEN [some |-> TRUE, ind |-> h.ind, row |-> row,
                       col |-> col, stale |-> FALSE]
                 ELSE NoHandle
    /\ call' = [op |-> "nnz_index", row |-> row, col |-> col, val |-> 0,
                panicked |-> FALSE]
    /\ old' = mat
    /\ UNCHANGED <<mat, ents, iter, ret>>

\* mat[handle] = val
IndexMutOp ==
  \E val \in Vals :
    /\ handle.some
    /\ mat' = IF index_panics(mat, handle.ind) THEN mat
              ELSE index_mut(mat, handle.ind, val)
    /\ call' = [op |-> "index_mut", row |-> handle.row, col |-> handle.col,
                val |-> val, panicked |-> index_panics(mat, handle.ind)]
    /\ old' = mat
    /\ UNCHANGED <<ents, handle, iter, ret>>

LookupNext == Get \/ NnzIndexOp \/ IndexMutOp

SpecLookup == LookupInit /\ [][LookupNext]_vars

\* a handle and the operations that may follow it, on matrices grown from
\* the empty matrix
HandleInit ==
  /\ mat \in {empty(CSR, 0), empty(CSC, 0)}
  /\ old = mat
  /\ call = NoCall
  /\ ents = NoEnts
  /\ handle = NoHandle
  /\ iter = NoIter
  /\ ret = NoRet

\* if let Some(x) = mat.get_mut(row, col) { *x = val }
GetMutOp ==
  \E row \in Rows, col \in Cols, val \in Vals :
    /\ mat' = LET h == get_mut(mat, row, col) IN
              IF h.some THEN [mat EXCEPT !.data[h.ind + 1] = val] ELSE mat
    /\ call' = [op |-> "get_mut", row |-> row, col |-> col, val |-> val,
                panicked |-> FALSE]
    /\ old' = mat
    /\ UNCHANGED <<ents, handle, iter, ret>>

\* mat.scale(val), while the values stay within Vals
ScaleOp ==
  \E val \in Vals :
    /\ \A k \in 1..Len(mat.data) : mat.data[k] * val <= MaxVal
    /\ mat' = scale(mat, val)
    /\ call' = [op |-> "scale", row |-> 0, col |-> 0, val |-> val,
                panicked |-> FALSE]
    /\ old' = mat
    /\ UNCHANGED <<ents, handle, iter, ret>>

\* mat.map_inplace(f)
MapInplaceOp ==
  \E f \in [Vals -> Vals] :
    /\ mat' = map_inplace(mat, f)
    /\ call' = [op |-> "map_inplace", row |-> 0, col |-> 0, val |-> 0,
                panicked |-> FALSE]
    /\ old' = mat
    /\ UNCHANGED <<ents, handle, iter, ret>>

\* mat.insert(row, col, val); an insert at a position that is not stored is
\* a structural mutation: the handle taken before it is marked stale
HandleInsert ==
  \E row \in Rows, col \in Cols, val \in Vals :
    /\ Insert(row, col, val)
    /\ handle' = [handle EXCEPT
                    !.stale = @ \/ (handle.some /\ get(mat, row, col) = NoVal)]
    /\ UNCHANGED <<ents, iter, ret>>

HandleNext ==
  \/ NnzIndexOp
  \/ IndexMutOp
  \/ GetMutOp
  \/ Set
  \/ ScaleOp
  \/ MapInplaceOp
  \/ HandleInsert

SpecHandle == HandleInit /\ [][HandleNext]_vars

(* ------------------------- iteration by blocks ------------------------- *)
BlockInit ==
  /\ mat \in InitMats \cup {eye(n) : n \in 0..MaxEye}
  /\ old = mat
  /\ call = NoCall
  /\ ents = NoEnts
  /\ handle = NoHandle
  /\ iter = NoIter
  /\ ret = NoRet

\* iter = mat.outer_block_iter(block_size)
OuterBlockIter ==
  \E block_size \in 0..MaxBlock :
    /\ ~iter.active
    /\ iter' = outer_block_iter(mat, block_size)
    /\ call' = [op |-> "outer_block_iter", row |-> 0, col |-> 0,
                val |-> block_size, panicked |-> FALSE]
    /\ old' = mat
    /\ UNCHANGED <<mat, ents, handle, ret>>

\* iter.next(), until it returns None or aborts
BlockNext ==
  /\ iter.active
  /\ ~iter.done
  /\ ~iter.panicked
  /\ iter' = next(iter, mat)
  /\ call' = [op |-> "next", row |-> 0, col |-> 0, val |-> iter.block_size,
              panicked |-> next(iter, mat).panicked]
  /\ old' = mat
  /\ UNCHANGED <<mat, ents, handle, ret>>

BlocksNext == OuterBlockIter \/ BlockNext

SpecBlocks == BlockInit /\ [][BlocksNext]_vars

(* ------------- claims on construction from supplied buffers ------------ *)
WasNew == call.op = "new"
WasNewView == call.op = "new_view"

\* what new_view returned for the buffers it was called on
ViewResult ==
  new_view(old.storage, old.nrows, old.ncols, old.indptr, old.indices,
           old.data).res

\* indptr has outer_dims + 1 offsets, indices and data have indptr.last()
\* elements
LengthsOk(m) ==
  /\ Len(m.indptr) = outer_dims(m) + 1
  /\ Len(m.indices) = Last(m.indptr)
  /\ Len(m.data) = Last(m.indptr)

\* how often the pair (i, v) occurs in outer slice o
PairCount(m, o, i, v) ==
  Cardinality({k \in (At(m.indptr, o) + 1)..At(m.indptr, o + 1) :
                 m.indices[k] = i /\ m.data[k] = v})

\* buffers with well-formed offsets, matching lengths, indices within the
\* inner dimension and no index twice in a slice, in any order
Sortable(m) ==
  /\ LengthsOk(m)
  /\ Monotonic(m.indptr)
  /\ \A k \in 1..Len(m.indices) : m.indices[k] < inner_dims(m)
  /\ \A o \in 0..(outer_dims(m) - 1) : NoDuplicates(Run(m, o))

\* C11: new / new_csc on buffers with well-formed offsets, matching lengths,
\* in-range indices and slices of distinct indices in any order does not
\* abort; in the result every outer slice is strictly ascending, the offsets
\* and the shape are the supplied ones, and every slice holds the (index,
\* value) pairs it was supplied with
C11_NewSortsSlices ==
  (WasNew /\ Sortable(old)) =>
    /\ ~call.panicked
    /\ mat.storage = old.storage
    /\ shape(mat) = shape(old)
    /\ mat.indptr = old.indptr
    /\ Len(mat.indices) = Len(old.indices)
    /\ Len(mat.data) = Len(old.data)
    /\ \A o \in 0..(outer_dims(old) - 1) :
         /\ StrictlyAscending(Run(mat, o))
         /\ \A i \in 0..MaxDim, v \in Vals :
              PairCount(mat, o, i, v) = PairCount(old, o, i, v)

\* a descending slice with two different values after an empty slice
C11_Witness ==
  /\ WasNew
  /\ Sortable(old)
  /\ \E o \in 1..(outer_dims(old) - 1) : ~Monotonic(Run(old, o))
  /\ mat.data # old.data

\* the malformed inputs C12 lists
Malformed(m) ==
  \/ Len(m.indptr) # outer_dims(m) + 1
  \/ Len(m.indices) # Last(m.indptr)
  \/ Len(m.data) # Last(m.indptr)
  \/ ~Monotonic(m.indptr)
  \/ \E k \in 1..Len(m.indices) : m.indices[k] >= inner_dims(m)

\* C12: when new / new_csc returns, the matrix satisfies the structural
\* invariants; on input with an indptr length other than outer_dims + 1,
\* with len(indices) or len(data) other than indptr.last(), with
\* non-monotonic offsets or with an index >= inner_dims, the call aborts
C12_NewRejectsMalformed ==
  WasNew =>
    /\ ~call.panicked => Structured(mat)
    /\ Malformed(old) => call.panicked

\* C13: new_view never aborts, whatever the buffers: it returns Ok or a
\* typed error, and a typed error on malformed buffers
C13_NewViewNeverAborts ==
  WasNewView =>
    /\ ~call.panicked
    /\ ViewResult \in {"Ok", "UnsortedIndptr", "NonSortedIndices",
                       "OutOfBounds"}
    /\ ~Structured(old) => ViewResult # "Ok"

\* C14: new_view returns Ok(view), the view holding the supplied buffers,
\* exactly when indptr has outer_dims + 1 offsets and is monotonic,
\* len(indices) = len(data) = indptr.last() and every slice is strictly
\* ascending with indices < inner_dims; on any other input it yields no
\* matrix: it returns an Err or aborts
C14_NewViewAcceptsExactlyValid ==
  WasNewView =>
    /\ ViewResult = "Ok" <=> Structured(old)
    /\ ViewResult = "Ok" => mat = old /\ ~call.panicked
    /\ ~Structured(old) =>
         ViewResult \in {"panic", "UnsortedIndptr", "NonSortedIndices",
                         "OutOfBounds"}

\* an accepted view with an empty slice in front of a slice of two entries
C14_Witness ==
  /\ WasNewView
  /\ ViewResult = "Ok"
  /\ \E o \in 1..(outer_dims(old) - 1) :
       Len(Run(old, o - 1)) = 0 /\ Len(Run(old, o)) = 2

\* C15: on buffers with matching lengths whose indptr is not monotonic,
\* new_view returns Err(UnsortedIndptr), also when an interior offset
\* exceeds nnz
C15_UnsortedIndptrFirst ==
  (WasNewView /\ LengthsOk(old) /\ ~Monotonic(old.indptr)) =>
    ViewResult = "UnsortedIndptr"

\* some outer slice of m is not strictly ascending / holds an index past
\* the inner dimension
SomeRunUnsorted(m) ==
  \E o \in 0..(outer_dims(m) - 1) : ~StrictlyAscending(Run(m, o))

SomeRunOutOfBounds(m) ==
  \E o \in 0..(outer_dims(m) - 1) :
    \E k \in 1..Len(Run(m, o)) : Run(m, o)[k] >= inner_dims(m)

StoredAt(m, row, col) ==
  LET o == outer_dimension(m.storage, row, col)
      i == inner_dimension(m.storage, row, col)
  IN IF o >= outer_dims(m) THEN {}
     ELSE {k \in (At(m.indptr, o) + 1)..At(m.indptr, o + 1) : m.indices[k] = i}

WasGet == call.op = "get"

\* C17: get(row, col) on a valid matrix of either storage never aborts; it
\* returns Some(v) exactly when an entry (row, col, v) is stored, and None
\* otherwise, also for a row or col outside the dimensions; on eye(n) it
\* returns Some(1) exactly when row = col < n
C17_GetReturnsStored ==
  WasGet =>
    /\ ~call.panicked
    /\ StoredAt(mat, call.row, call.col) = {} => call.val = NoVal
    /\ \A k \in StoredAt(mat, call.row, call.col) : call.val = mat.data[k]
    /\ (call.row >= mat.nrows \/ call.col >= mat.ncols) => call.val = NoVal
    /\ \A n \in 0..MaxDim :
         mat = eye(n) =>
           call.val = (IF call.row = call.col /\ call.row < n THEN 1
                       ELSE NoVal)

\* a hit in a column-major matrix at an entry that is neither on the
\* diagonal nor first in the buffers
C17_Witness ==
  /\ WasGet
  /\ mat.storage = CSC
  /\ call.val # NoVal
  /\ call.row # call.col
  /\ \E k \in StoredAt(mat, call.row, call.col) : k > 1

\* C18: nnz_index(row, col) returns Some(NnzIndex(k)) exactly when
\* (row, col) is stored; then indptr[outer] <= k < indptr[outer + 1],
\* indices[k] = inner and mat[NnzIndex(k)] is the value get(row, col)
\* returns; a write through mat[NnzIndex(k)] is what get(row, col) returns
\* afterwards
C18_NnzIndexIsFlatPosition ==
  /\ call.op = "nnz_index" =>
       /\ handle.some <=> StoredAt(mat, call.row, call.col) # {}
       /\ handle.some =>
            /\ handle.row = call.row /\ handle.col = call.col
            /\ StoredAt(mat, call.row, call.col) = {handle.ind + 1}
            /\ ~index_panics(mat, handle.ind)
            /\ get(mat, call.row, call.col) # NoVal
            /\ index(mat, handle.ind) = get(mat, call.row, call.col)
  /\ (call.op = "index_mut" /\ StoredAt(old, call.row, call.col) = {handle.ind + 1}) =>
       /\ ~call.panicked
       /\ get(mat, call.row, call.col) = call.val
       /\ index(mat, handle.ind) = call.val

\* a write that changes the value through a handle into a slice that does
\* not start at flat position 0
C18_Witness ==
  /\ call.op = "index_mut"
  /\ StoredAt(old, call.row, call.col) = {handle.ind + 1}
  /\ At(old.indptr, outer_dimension(old.storage, call.row, call.col)) > 0
  /\ get(old, call.row, call.col) # call.val

\* the handle addresses the position it was taken for
HandleAddresses(m) ==
  /\ nnz_index(m, handle.row, handle.col) = [some |-> TRUE, ind |-> handle.ind]
  /\ ~index_panics(m, handle.ind)
  /\ index(m, handle.ind) = get(m, handle.row, handle.col)

\* C19: as long as no insert at a position that was not stored has followed
\* it, a handle taken by nnz_index(row, col) addresses (row, col) after any
\* writes through handles, get_mut, set, scale, map_inplace and overwriting
\* inserts; an insert that splices an entry in at a flat position <= h
\* moves the entry of (row, col) to h + 1, and the access mat[h] still
\* succeeds, on another entry
C19_HandleUntilStructuralMutation ==
  /\ (handle.some /\ ~handle.stale) => HandleAddresses(mat)
  /\ (/\ InsertedFresh
      /\ handle.some
      /\ nnz_index(old, handle.row, handle.col)
           = [some |-> TRUE, ind |-> handle.ind]
      /\ nnz_index(mat, call.row, call.col).ind <= handle.ind) =>
       /\ nnz_index(mat, handle.row, handle.col)
            = [some |-> TRUE, ind |-> handle.ind + 1]
       /\ ~index_panics(mat, handle.ind)
       /\ StoredAt(mat, handle.row, handle.col) # {handle.ind + 1}

\* after a splice in front of the handle's entry the handle reads the value
\* of another entry
C19_Witness ==
  /\ InsertedFresh
  /\ handle.some
  /\ handle.stale
  /\ nnz_index(old, handle.row, handle.col)
       = [some |-> TRUE, ind |-> handle.ind]
  /\ nnz_index(mat, call.row, call.col).ind <= handle.ind
  /\ index(mat, handle.ind) # get(mat, handle.row, handle.col)

(* ----------------------- claims on blocked iteration ------------------- *)
Min(a, b) == IF a <= b THEN a ELSE b

\* ceil(n / b)
BlockCount(n, b) == (n + b - 1) \div b

\* C20: outer_block_iter(b), b >= 1, on a matrix of n outer slices never
\* aborts; it yields ceil(n / b) views and then None, the k-th view (from
\* 0) over the outer slices k * b .. min((k + 1) * b, n) - 1
C20_BlocksPartition ==
  (iter.active /\ iter.block_size >= 1) =>
    LET n == outer_dims(mat)
        b == iter.block_size
    IN /\ ~iter.panicked
       /\ Len(iter.views) <= BlockCount(n, b)
       /\ iter.done => Len(iter.views) = BlockCount(n, b)
       /\ \A k \in 1..Len(iter.views) :
            /\ Len(iter.views[k].indptr) - 1 = Min(k * b, n) - (k - 1) * b
            /\ iter.views[k].indptr
                 = Slice(mat.indptr, (k - 1) * b, Min(k * b, n) + 1)

(* ------------------------ transposition and views ---------------------- *)
\* a transposition that flips the storage and keeps nrows and ncols
transpose_mut_keep_shape(m) == [m EXCEPT !.storage = other_storage(@)]

\* transpose_mut(): nrows and ncols are swapped and the storage flipped
transpose_mut(m) ==
  [m EXCEPT !.nrows = m.ncols, !.ncols = m.nrows,
            !.storage = other_storage(m.storage)]

transpose_into(m) == transpose_mut(m)

\* transpose_view(): the view over the same indptr, indices and data
transpose_view(m) ==
  [storage |-> other_storage(m.storage),
   nrows   |-> m.ncols,
   ncols   |-> m.nrows,
   indptr  |-> m.indptr,
   indices |-> m.indices,
   data    |-> m.data]

\* ret = mat.middle_outer_views(i, count); call.row is i, call.col is count
MiddleOuterViews ==
  \E i \in 0..(MaxRow + 2), count \in 0..(MaxRow + 2) :
    /\ ret' = IF middle_outer_views_panics(mat, i, count) THEN NoRet
              ELSE middle_outer_views(mat, i, count)
    /\ call' = [op |-> "middle_outer_views", row |-> i, col |-> count,
                val |-> 0,
                panicked |-> middle_outer_views_panics(mat, i, count)]
    /\ old' = mat
    /\ UNCHANGED <<mat, ents, handle, iter>>

\* mat.transpose_mut()
TransposeMut ==
  /\ mat' = transpose_mut(mat)
  /\ call' = [op |-> "transpose_mut", row |-> 0, col |-> 0, val |-> 0,
              panicked |-> FALSE]
  /\ old' = mat
  /\ ret' = NoRet
  /\ UNCHANGED <<ents, handle, iter>>

\* mat = mat.transpose_into()
TransposeInto ==
  /\ mat' = transpose_into(mat)
  /\ call' = [op |-> "transpose_into", row |-> 0, col |-> 0, val |-> 0,
              panicked |-> FALSE]
  /\ old' = mat
  /\ ret' = NoRet
  /\ UNCHANGED <<ents, handle, iter>>

\* ret = mat.transpose_view()
TransposeView ==
  /\ ret' = transpose_view(mat)
  /\ call' = [op |-> "transpose_view", row |-> 0, col |-> 0, val |-> 0,
              panicked |-> FALSE]
  /\ old' = mat
  /\ UNCHANGED <<mat, ents, handle, iter>>

ViewsNext ==
  \/ MiddleOuterViews
  \/ TransposeMut
  \/ TransposeInto
  \/ TransposeView

\* views and transpositions of every matrix the constructors give
SpecViews == LookupInit /\ [][ViewsNext]_vars

(* ------------------- claims on views and transposition ----------------- *)
\* the values of outer slice o
DataRun(m, o) == Slice(m.data, At(m.indptr, o), At(m.indptr, o + 1))

\* C21: middle_outer_views(i, count) of a valid view, count >= 1 and
\* i + count <= outer_dims, in CSR or CSC storage: the result has the
\* storage of the source, outer_dims() = count, the inner_dims() of the
\* source, count + 1 offsets, and its k-th outer slice has the indices and
\* values of the outer slice i + k of the source
C21_MiddleOuterViews ==
  (/\ call.op = "middle_outer_views"
   /\ check_compressed_structure(mat) = "Ok"
   /\ call.col >= 1
   /\ call.row + call.col <= outer_dims(mat)) =>
    /\ ~call.panicked
    /\ ret.storage = mat.storage
    /\ outer_dims(ret) = call.col
    /\ inner_dims(ret) = inner_dims(mat)
    /\ Len(ret.indptr) = call.col + 1
    /\ \A k \in 0..(call.col - 1) :
         /\ Run(ret, k) = Run(mat, call.row + k)
         /\ DataRun(ret, k) = DataRun(mat, call.row + k)

\* the transposed matrix t of the matrix m: the storage flipped, the shape
\* swapped, the buffers those of m, and t.get(j, i) = m.get(i, j)
Transposed(t, m) ==
  /\ t.storage = other_storage(m.storage)
  /\ t.nrows = m.ncols
  /\ t.ncols = m.nrows
  /\ t.indptr = m.indptr
  /\ t.indices = m.indices
  /\ t.data = m.data
  /\ \A i \in 0..(MaxRow + 1), j \in 0..(MaxRow + 1) :
       /\ get_panics(t, j, i) = get_panics(m, i, j)
       /\ ~get_panics(m, i, j) => get(t, j, i) = get(m, i, j)

\* C22: transpose_mut (transpose_into) and transpose_view flip the storage,
\* swap nrows and ncols and leave indptr, indices and data as they are;
\* get(j, i) of the transposed matrix is get(i, j) of the original, and a
\* second transpose_mut gives the original back
C22_TransposeKeepsBuffers ==
  /\ call.op \in {"transpose_mut", "transpose_into"} =>
       /\ Transposed(mat, old)
       /\ transpose_mut(mat) = old
  /\ call.op = "transpose_view" =>
       /\ Transposed(ret, mat)
       /\ mat = old

\* a matrix that is not square, with an entry off the diagonal, has been
\* transposed in place
C22_Witness ==
  /\ call.op = "transpose_mut"
  /\ old.nrows # old.ncols
  /\ nnz(old) >= 2
  /\ \E i \in 0..(MaxRow + 1), j \in 0..(MaxRow + 1) :
       i # j /\ get(old, i, j) # NoVal /\ get(mat, j, i) = get(old, i, j)

(* ------------------------ elementwise transforms ----------------------- *)
\* to_owned(): a copy of every field
to_owned(m) ==
  [storage |-> m.storage,
   nrows   |-> m.nrows,
   ncols   |-> m.ncols,
   indptr  |-> m.indptr,
   indices |-> m.indices,
   data    |-> m.data]

\* map(f): map_inplace(f) on a copy, which is returned
map(m, f) == map_inplace(to_owned(m), f)

\* the values a transform takes and gives: zero is one of them
ValsOrZero == 0..MaxVal

\* ret = mat.map(f); call.val is f
MapOp ==
  \E f \in [ValsOrZero -> ValsOrZero] :
    /\ ret' = map(mat, f)
    /\ call' = [op |-> "map", row |-> 0, col |-> 0, val |-> f,
                panicked |-> FALSE]
    /\ old' = mat
    /\ UNCHANGED <<mat, ents, handle, iter>>

\* mat.map_inplace(f); call.val is f
MapInplaceAnyOp ==
  \E f \in [ValsOrZero -> ValsOrZero] :
    /\ mat' = map_inplace(mat, f)
    /\ call' = [op |-> "map_inplace", row |-> 0, col |-> 0, val |-> f,
                panicked |-> FALSE]
    /\ old' = mat
    /\ ret' = NoRet
    /\ UNCHANGED <<ents, handle, iter>>

\* mat.scale(val), val zero included, while the values stay within MaxVal
ScaleAnyOp ==
  \E val \in ValsOrZero :
    /\ \A k \in 1..Len(mat.data) : mat.data[k] * val <= MaxVal
    /\ mat' = scale(mat, val)
    /\ call' = [op |-> "scale", row |-> 0, col |-> 0, val |-> val,
                panicked |-> FALSE]
    /\ old' = mat
    /\ ret' = NoRet
    /\ UNCHANGED <<ents, handle, iter>>

MapNext == MapOp \/ MapInplaceAnyOp \/ ScaleAnyOp

\* transforms of every matrix the constructors give
SpecMap == LookupInit /\ [][MapNext]_vars

(* --------------------- claims on elementwise transforms ---------------- *)
\* the matrix a has the storage, shape, offsets, indices and nnz of b
SamePattern(a, b) ==
  /\ a.storage = b.storage
  /\ shape(a) = shape(b)
  /\ a.indptr = b.indptr
  /\ a.indices = b.indices
  /\ nnz(a) = nnz(b)
  /\ Len(a.data) = Len(b.data)

\* C23: map, map_inplace and scale keep storage, shape, indptr, indices and
\* nnz; data[k] becomes f(data[k]), for scale data[k] * factor, for every
\* k, and no entry is removed when the result is zero; map leaves the
\* source as it was
C23_MapKeepsPattern ==
  /\ call.op = "map_inplace" =>
       /\ SamePattern(mat, old)
       /\ \A k \in 1..Len(old.data) : mat.data[k] = call.val[old.data[k]]
  /\ call.op = "scale" =>
       /\ SamePattern(mat, old)
       /\ \A k \in 1..Len(old.data) : mat.data[k] = old.data[k] * call.val
  /\ call.op = "map" =>
       /\ SamePattern(ret, mat)
       /\ \A k \in 1..Len(mat.data) : ret.data[k] = call.val[mat.data[k]]
       /\ mat = old

\* map_inplace has turned one stored value into zero and another one into
\* a different value that is not zero
C23_Witness ==
  /\ call.op = "map_inplace"
  /\ nnz(mat) >= 2
  /\ nnz(mat) = nnz(old)
  /\ \E k \in 1..Len(mat.data) : mat.data[k] = 0 /\ old.data[k] # 0
  /\ \E k \in 1..Len(mat.data) :
       mat.data[k] # 0 /\ mat.data[k] # old.data[k]

(* ------------------------- appending outer slices ---------------------- *)
\* the positions of the dense slice data that do not hold zero, ascending
nonzero_inds(data) ==
  SelectSeq([k \in 1..Len(data) |-> k - 1], LAMBDA c : At(data, c) # 0)

\* the values of the dense slice data that are not zero, in order
nonzero_vals(data) == SelectSeq(data, LAMBDA v : v # 0)

\* an append that stores every element of the dense slice, zeros included
append_outer_dense(m, data) ==
  LET m1 == [m EXCEPT !.indices = @ \o [k \in 1..Len(data) |-> k - 1],
                      !.data    = @ \o data]
  IN [set_outer_dims(m1, outer_dims(m) + 1) EXCEPT
        !.indptr = Append(@, nnz(m) + Len(data))]

\* append_outer(data): the (inner_ind, val) of every val != 0 are pushed,
\* the outer dimension grows by one and the new nnz is pushed on indptr
append_outer(m, data) ==
  LET m1 == [m EXCEPT !.indices = @ \o nonzero_inds(data),
                      !.data    = @ \o nonzero_vals(data)]
  IN [set_outer_dims(m1, outer_dims(m) + 1) EXCEPT
        !.indptr = Append(@, nnz(m) + Len(nonzero_inds(data)))]

\* the sparse vector of the dense slice d: [dim, indices, data]
CsVecOf(d) ==
  [dim |-> Len(d), indices |-> nonzero_inds(d), data |-> nonzero_vals(d)]

\* append_outer_csvec(vec) aborts: assert_eq!(self.inner_dims(), vec.dim())
append_outer_csvec_panics(m, vec) == inner_dims(m) # vec.dim

\* append_outer_csvec(vec): the indices and data of vec are pushed, the
\* outer dimension grows by one, the last offset plus vec.nnz() is pushed
append_outer_csvec(m, vec) ==
  LET m1 == [m EXCEPT !.indices = @ \o vec.indices,
                      !.data    = @ \o vec.data]
  IN [set_outer_dims(m1, outer_dims(m) + 1) EXCEPT
        !.indptr = Append(@, Last(m.indptr) + Len(vec.data))]

\* the dense slices appended: of every length up to one past the largest
\* inner dimension, zeros included
DenseSlices == SeqsUpTo(0..MaxVal, MaxRow + 2)

\* mat = mat.append_outer(data); call.val is data
AppendOuter ==
  \E data \in DenseSlices :
    /\ outer_dims(mat) <= MaxRow + 1
    /\ Len(data) <= inner_dims(mat) + 1
    /\ nnz(mat) + Len(nonzero_inds(data)) <= MaxNnz
    /\ mat' = append_outer(mat, data)
    /\ call' = [op |-> "append_outer", row |-> 0, col |-> 0, val |-> data,
                panicked |-> FALSE]
    /\ old' = mat
    /\ ret' = NoRet
    /\ UNCHANGED <<ents, handle, iter>>

\* mat = mat.append_outer_csvec(vec), vec the sparse vector of the dense
\* slice d; call.val is d
AppendOuterCsvec ==
  \E d \in DenseSlices :
    /\ outer_dims(mat) <= MaxRow + 1
    /\ Len(d) <= inner_dims(mat) + 1
    /\ nnz(mat) + Len(nonzero_inds(d)) <= MaxNnz
    /\ mat' = IF append_outer_csvec_panics(mat, CsVecOf(d)) THEN mat
              ELSE append_outer_csvec(mat, CsVecOf(d))
    /\ call' = [op |-> "append_outer_csvec", row |-> 0, col |-> 0,
                val |-> d,
                panicked |-> append_outer_csvec_panics(mat, CsVecOf(d))]
    /\ old' = mat
    /\ ret' = NoRet
    /\ UNCHANGED <<ents, handle, iter>>

AppendNext == AppendOuter \/ AppendOuterCsvec

\* appends to every matrix the constructors give
SpecAppend == Init /\ [][AppendNext]_vars

(* -------------------------- claims on appending ------------------------ *)
\* C24: append_outer(data) on a valid matrix of n outer slices, data of
\* length inner_dims: n + 1 outer slices and one more offset, the inner
\* dimension unchanged; the new last slice stores the positions c with
\* data[c] != 0, ascending, each with the value data[c]; the offsets,
\* indices and values of the slices before it are unchanged
C24_AppendOuterDense ==
  (/\ call.op = "append_outer"
   /\ check_compressed_structure(old) = "Ok"
   /\ Len(call.val) = inner_dims(old)) =>
    LET n == outer_dims(old) IN
    /\ mat.storage = old.storage
    /\ outer_dims(mat) = n + 1
    /\ Len(mat.indptr) = Len(old.indptr) + 1
    /\ inner_dims(mat) = inner_dims(old)
    /\ StrictlyAscending(Run(mat, n))
    /\ {Run(mat, n)[k] : k \in 1..Len(Run(mat, n))}
         = {c \in 0..(Len(call.val) - 1) : At(call.val, c) # 0}
    /\ Len(DataRun(mat, n)) = Len(Run(mat, n))
    /\ \A k \in 1..Len(Run(mat, n)) :
         DataRun(mat, n)[k] = At(call.val, Run(mat, n)[k])
    /\ SubSeq(mat.indptr, 1, n + 1) = old.indptr
    /\ SubSeq(mat.indices, 1, Len(old.indices)) = old.indices
    /\ SubSeq(mat.data, 1, Len(old.data)) = old.data
    /\ \A o \in 0..(n - 1) :
         Run(mat, o) = Run(old, o) /\ DataRun(mat, o) = DataRun(old, o)

\* a dense slice with a zero between two values has been appended to a
\* matrix that already stores something
C24_Witness ==
  /\ call.op = "append_outer"
  /\ check_compressed_structure(old) = "Ok"
  /\ Len(call.val) = inner_dims(old)
  /\ nnz(old) >= 1
  /\ \E a \in 1..Len(call.val), b \in 1..Len(call.val), c \in 1..Len(call.val) :
       a < b /\ b < c /\ call.val[a] # 0 /\ call.val[b] = 0 /\ call.val[c] # 0
  /\ Len(Run(mat, outer_dims(old))) = 2

\* C28: append_outer (with a dense slice of any length) and
\* append_outer_csvec keep the structural invariants: the matrix appended
\* to was valid, so the result passes check_compressed_structure and every
\* stored inner index is below inner_dims()
C28_AppendKeepsStructure ==
  (/\ call.op \in {"append_outer", "append_outer_csvec"}
   /\ ~call.panicked
   /\ check_compressed_structure(old) = "Ok") =>
    /\ check_compressed_structure(mat) = "Ok"
    /\ \A k \in 1..Len(mat.indices) : mat.indices[k] < inner_dims(mat)

(* -------------------------- outer iteration ---------------------------- *)
\* slice::Windows of size 2 over the offsets v: what is left of v
windows_len(v) == IF Len(v) < 2 THEN 0 ELSE Len(v) - 1

\* the sparse vector view an iterator yields over indices and data
\* [inner_start, inner_end); start and stop record the flat range
slice_view(it, inner_start, inner_end, from) ==
  [from    |-> from,
   start   |-> inner_start,
   stop    |-> inner_end,
   dim     |-> it.inner_len,
   indices |-> Slice(it.indices, inner_start, inner_end),
   data    |-> Slice(it.data, inner_start, inner_end)]

\* outer_iterator(): the iterator before its first call
outer_iterator(m) ==
  [active      |-> TRUE,
   kind        |-> "outer",
   inner_len   |-> IF m.storage = CSR THEN m.ncols ELSE m.nrows,
   indptr_iter |-> m.indptr,
   indices     |-> m.indices,
   data        |-> m.data,
   items       |-> <<>>,
   done        |-> FALSE]

\* OuterIterator::next: the first window of indptr_iter is taken; done
\* when it returned None, otherwise the view is appended to items
OuterIterator_next(it) ==
  IF windows_len(it.indptr_iter) = 0 THEN [it EXCEPT !.done = TRUE]
  ELSE LET inner_start == it.indptr_iter[1]
           inner_end   == it.indptr_iter[2]
       IN [it EXCEPT
             !.indptr_iter = Tail(@),
             !.items = Append(@, slice_view(it, inner_start, inner_end,
                                            "front"))]

\* a next_back that takes the window at the front
OuterIterator_next_back_front(it) ==
  IF windows_len(it.indptr_iter) = 0 THEN [it EXCEPT !.done = TRUE]
  ELSE LET inner_start == it.indptr_iter[1]
           inner_end   == it.indptr_iter[2]
       IN [it EXCEPT
             !.indptr_iter = Tail(@),
             !.items = Append(@, slice_view(it, inner_start, inner_end,
                                            "back"))]

\* OuterIterator::next_back: the last window of indptr_iter is taken
OuterIterator_next_back(it) ==
  IF windows_len(it.indptr_iter) = 0 THEN [it EXCEPT !.done = TRUE]
  ELSE LET len         == Len(it.indptr_iter)
           inner_start == it.indptr_iter[len - 1]
           inner_end   == it.indptr_iter[len]
       IN [it EXCEPT
             !.indptr_iter = SubSeq(@, 1, len - 1),
             !.items = Append(@, slice_view(it, inner_start, inner_end,
                                            "back"))]

\* ExactSizeIterator::len
OuterIterator_len(it) == windows_len(it.indptr_iter)

\* outer_iterator_mut(): the iterator before its first call
outer_iterator_mut(m) ==
  [active      |-> TRUE,
   kind        |-> "mut",
   inner_len   |-> IF m.storage = CSR THEN m.ncols ELSE m.nrows,
   indptr_iter |-> m.indptr,
   indices     |-> m.indices,
   data        |-> m.data,
   items       |-> <<>>,
   done        |-> FALSE]

\* a mutable slice that starts at the beginning of data
OuterIteratorMut_next_from_zero(it) ==
  IF windows_len(it.indptr_iter) = 0 THEN [it EXCEPT !.done = TRUE]
  ELSE LET inner_end == it.indptr_iter[2]
       IN [it EXCEPT
             !.indptr_iter = Tail(@),
             !.items = Append(@, slice_view(it, 0, inner_end, "front"))]

\* OuterIteratorMut::next: the mutable view over data
\* [inner_start, inner_end) of the first window
OuterIteratorMut_next(it) ==
  IF windows_len(it.indptr_iter) = 0 THEN [it EXCEPT !.done = TRUE]
  ELSE LET inner_start == it.indptr_iter[1]
           inner_end   == it.indptr_iter[2]
       IN [it EXCEPT
             !.indptr_iter = Tail(@),
             !.items = Append(@, slice_view(it, inner_start, inner_end,
                                            "front"))]

\* the permutations of 0..n-1, p[k + 1] the image of k
Perms(n) ==
  {p \in [1..n -> 0..(n - 1)] :
     \A a \in 1..n, b \in 1..n : p[a] = p[b] => a = b}

\* the permutation view of p: perm and its inverse
PermOf(p) ==
  [perm     |-> p,
   perm_inv |-> [i \in 1..Len(p) |-> (CHOOSE j \in 1..Len(p) : p[j] = i - 1) - 1]]

reborrow(perm) == perm

reborrow_inv(perm) == [perm |-> perm.perm_inv, perm_inv |-> perm.perm]

perm_at(perm, i) == At(perm.perm, i)

\* a permuted iterator that never inverts the permutation
outer_iterator_perm_direct(m, perm) ==
  [active         |-> TRUE,
   kind           |-> "perm",
   inner_len      |-> IF m.storage = CSR THEN m.ncols ELSE m.nrows,
   outer_ind_iter |-> [start |-> 0, end |-> Len(m.indptr) - 1],
   indptr         |-> m.indptr,
   indices        |-> m.indices,
   data           |-> m.data,
   perm           |-> reborrow(perm),
   given          |-> perm.perm,
   items          |-> <<>>,
   done           |-> FALSE]

\* outer_iterator_perm(perm): the permutation as it is for CSR, inverted
\* for CSC; given records the permutation passed
outer_iterator_perm(m, perm) ==
  [active         |-> TRUE,
   kind           |-> "perm",
   inner_len      |-> IF m.storage = CSR THEN m.ncols ELSE m.nrows,
   outer_ind_iter |-> [start |-> 0, end |-> Len(m.indptr) - 1],
   indptr         |-> m.indptr,
   indices        |-> m.indices,
   data           |-> m.data,
   perm           |-> IF m.storage = CSR THEN reborrow(perm)
                      ELSE reborrow_inv(perm),
   given          |-> perm.perm,
   items          |-> <<>>,
   done           |-> FALSE]

\* OuterIteratorPerm::next: the next outer_ind of the range, the pair
\* (perm.at(outer_ind), view of that outer slice); outer records the first
OuterIteratorPerm_next(it) ==
  IF it.outer_ind_iter.start >= it.outer_ind_iter.end
  THEN [it EXCEPT !.done = TRUE]
  ELSE LET outer_ind      == it.outer_ind_iter.start
           outer_ind_perm == perm_at(it.perm, outer_ind)
           inner_start    == At(it.indptr, outer_ind_perm)
           inner_end      == At(it.indptr, outer_ind_perm + 1)
       IN [it EXCEPT
             !.outer_ind_iter.start = @ + 1,
             !.items = Append(@,
                 [outer |-> outer_ind_perm] @@
                 slice_view(it, inner_start, inner_end, "front"))]

\* every matrix the constructors give, and its transpose
OuterInit ==
  /\ mat \in InitMats \cup {transpose_into(m) : m \in InitMats}
  /\ old = mat
  /\ call = NoCall
  /\ ents = NoEnts
  /\ handle = NoHandle
  /\ iter = NoIter
  /\ ret = NoRet

IterCall(op) ==
  [op |-> op, row |-> 0, col |-> 0, val |-> 0, panicked |-> FALSE]

\* iter = mat.outer_iterator()
OuterIteratorOp ==
  /\ ~iter.active
  /\ iter' = outer_iterator(mat)
  /\ call' = IterCall("outer_iterator")
  /\ old' = mat
  /\ UNCHANGED <<mat, ents, handle, ret>>

\* iter.next(), until a call has returned None
OuterNext ==
  /\ iter.active
  /\ iter.kind = "outer"
  /\ ~iter.done
  /\ iter' = OuterIterator_next(iter)
  /\ call' = IterCall("next")
  /\ old' = mat
  /\ UNCHANGED <<mat, ents, handle, ret>>

\* iter.next_back(), until a call has returned None
OuterNextBack ==
  /\ iter.active
  /\ iter.kind = "outer"
  /\ ~iter.done
  /\ iter' = OuterIterator_next_back(iter)
  /\ call' = IterCall("next_back")
  /\ old' = mat
  /\ UNCHANGED <<mat, ents, handle, ret>>

\* iter = mat.outer_iterator_mut()
OuterIteratorMutOp ==
  /\ ~iter.active
  /\ iter' = outer_iterator_mut(mat)
  /\ call' = IterCall("outer_iterator_mut")
  /\ old' = mat
  /\ UNCHANGED <<mat, ents, handle, ret>>

\* iter.next() on the mutable iterator
OuterMutNext ==
  /\ iter.active
  /\ iter.kind = "mut"
  /\ ~iter.done
  /\ iter' = OuterIteratorMut_next(iter)
  /\ call' = IterCall("next")
  /\ old' = mat
  /\ UNCHANGED <<mat, ents, handle, ret>>

\* iter = mat.outer_iterator_perm(perm), perm a permutation of the outer
\* indices
OuterIteratorPermOp ==
  \E p \in Perms(outer_dims(mat)) :
    /\ ~iter.active
    /\ iter' = outer_iterator_perm(mat, PermOf(p))
    /\ call' = IterCall("outer_iterator_perm")
    /\ old' = mat
    /\ UNCHANGED <<mat, ents, handle, ret>>

\* iter.next() on the permuted iterator
OuterPermNext ==
  /\ iter.active
  /\ iter.kind = "perm"
  /\ ~iter.done
  /\ iter' = OuterIteratorPerm_next(iter)
  /\ call' = IterCall("next")
  /\ old' = mat
  /\ UNCHANGED <<mat, ents, handle, ret>>

OuterNextStep ==
  \/ OuterIteratorOp
  \/ OuterNext
  \/ OuterNextBack
  \/ OuterIteratorMutOp
  \/ OuterMutNext
  \/ OuterIteratorPermOp
  \/ OuterPermNext

SpecOuter == OuterInit /\ [][OuterNextStep]_vars

(* ----------------------- claims on outer iteration --------------------- *)
\* the item v is the view of the outer slice o of the matrix m
ViewOf(v, m, o) ==
  /\ o \in 0..(outer_dims(m) - 1)
  /\ v.start = At(m.indptr, o)
  /\ v.stop = At(m.indptr, o + 1)
  /\ v.dim = inner_dims(m)
  /\ v.indices = Run(m, o)
  /\ v.data = DataRun(m, o)

\* the number of items before the k-th that came from the end named from
TakenBefore(items, k, from) ==
  Cardinality({j \in 1..(k - 1) : items[j].from = from})

\* the outer index the k-th item must have: next() counts up from 0,
\* next_back() counts down from n - 1
OuterOf(items, k, n) ==
  IF items[k].from = "front" THEN TakenBefore(items, k, "front")
  ELSE n - 1 - TakenBefore(items, k, "back")

\* C25: plain outer iteration of a valid matrix of n outer slices: next()
\* yields the slices in ascending outer index, the i-th over
\* [indptr[i], indptr[i+1]), next_back() in descending outer index; under
\* every interleaving no slice is yielded twice, n are yielded in all, and
\* len() is the number of slices not yet yielded
C25_PlainOuterIteration ==
  (iter.active /\ iter.kind = "outer") =>
    LET n == outer_dims(mat) IN
    /\ Len(iter.items) <= n
    /\ iter.done => Len(iter.items) = n
    /\ OuterIterator_len(iter) = n - Len(iter.items)
    /\ \A k \in 1..Len(iter.items) :
         /\ ViewOf(iter.items[k], mat, OuterOf(iter.items, k, n))
         /\ \A j \in 1..(k - 1) :
              OuterOf(iter.items, j, n) # OuterOf(iter.items, k, n)

\* three slices taken from the front, the back and the front again, and
\* then None
C25_Witness ==
  /\ iter.active
  /\ iter.kind = "outer"
  /\ iter.done
  /\ Len(iter.items) = 3
  /\ iter.items[1].from = "front"
  /\ iter.items[2].from = "back"
  /\ iter.items[3].from = "front"
  /\ iter.items[2].indices # <<>>
  /\ iter.items[3].indices # <<>>
  /\ iter.items[3].indices # iter.items[2].indices

\* C26: the mutable slices outer_iterator_mut yields over a valid matrix
\* are the flat ranges [indptr[i], indptr[i+1]) of data, i ascending, and
\* the ranges yielded by one iterator are pairwise disjoint
C26_MutableSlicesDisjoint ==
  (iter.active /\ iter.kind = "mut") =>
    LET n == outer_dims(mat) IN
    /\ Len(iter.items) <= n
    /\ iter.done => Len(iter.items) = n
    /\ \A k \in 1..Len(iter.items) :
         /\ ViewOf(iter.items[k], mat, k - 1)
         /\ \A j \in 1..(k - 1) :
              \A x \in iter.items[j].start..(iter.items[j].stop - 1) :
                x \notin iter.items[k].start..(iter.items[k].stop - 1)

\* the mutable iterator has yielded three slices, two of them with entries
C26_Witness ==
  /\ iter.active
  /\ iter.kind = "mut"
  /\ iter.done
  /\ Len(iter.items) = 3
  /\ iter.items[2].start < iter.items[2].stop
  /\ iter.items[3].start < iter.items[3].stop

\* the inverse of the permutation p
InverseOf(p) ==
  [i \in 1..Len(p) |-> (CHOOSE j \in 1..Len(p) : p[j] = i - 1) - 1]

\* C27: permuted outer iteration of a valid matrix of n outer slices with
\* the permutation p yields n pairs; the k-th pair (from 0) is q(k) and the
\* slice [indptr[q(k)], indptr[q(k)+1]) of the source, q = p for CSR and
\* q = the inverse of p for CSC; every outer index is yielded once
C27_PermutedOuterIteration ==
  (iter.active /\ iter.kind = "perm") =>
    LET n == outer_dims(mat)
        q == IF mat.storage = CSR THEN iter.given ELSE InverseOf(iter.given)
    IN /\ Len(iter.items) <= n
       /\ iter.done => Len(iter.items) = n
       /\ \A k \in 1..Len(iter.items) :
            /\ iter.items[k].outer = q[k]
            /\ ViewOf(iter.items[k], mat, q[k])
            /\ \A j \in 1..(k - 1) :
                 iter.items[j].outer # iter.items[k].outer

\* a CSC matrix of three outer slices has been iterated with a permutation
\* that is not its own inverse
C27_Witness ==
  /\ iter.active
  /\ iter.kind = "perm"
  /\ iter.done
  /\ mat.storage = CSC
  /\ Len(iter.items) = 3
  /\ InverseOf(iter.given) # iter.given
  /\ nnz(mat) >= 2

(* --------------------------- the overflow guard ------------------------ *)
\* how far around half the index range the sizes and offsets are drawn
MaxSlack == 3

\* sizes and offsets around usize::MAX / 2
GuardSizes == ((usize_max \div 2) - MaxSlack)..((usize_max \div 2) + MaxSlack)

\* one full outer slice of n entries, in CSR or CSC storage, under any two
\* offsets that are small, around usize::MAX / 2, or usize::MAX
GuardInputs ==
  {[storage |-> st,
    nrows   |-> IF st = CSR THEN 1 ELSE n,
    ncols   |-> IF st = CSR THEN n ELSE 1,
    indptr  |-> <<a, b>>,
    indices |-> [k \in 1..n |-> k - 1],
    data    |-> Repeat(1, n)] :
     st \in {CSR, CSC}, n \in GuardSizes,
     a \in {0, 1} \cup GuardSizes \cup {usize_max},
     b \in GuardSizes \cup {usize_max}}

GuardInit ==
  /\ mat \in GuardInputs
  /\ old = mat
  /\ call = NoCall
  /\ ents = NoEnts
  /\ handle = NoHandle
  /\ iter = NoIter
  /\ ret = NoRet

\* new_view called on buffers about half the index range long
SpecGuard == GuardInit /\ [][NewView]_vars

(* ----------------------- claims on the overflow guard ------------------ *)
\* C29: every offset of a matrix check_compressed_structure accepts is at
\* most usize::MAX / 2, which is 2^(w-1) - 1 for indices of w bits, so the
\* sum of two offsets of an accepted matrix does not wrap around
C29_OffsetsBelowHalfRange ==
  check_compressed_structure(mat) = "Ok" =>
    /\ usize_max \div 2 = (2 ^ (IndexBits - 1)) - 1
    /\ \A a \in 1..Len(mat.indptr), b \in 1..Len(mat.indptr) :
         /\ mat.indptr[a] <= usize_max \div 2
         /\ (mat.indptr[a] + mat.indptr[b]) % (usize_max + 1)
              = mat.indptr[a] + mat.indptr[b]

\* new_view has accepted a matrix whose last offset is usize::MAX / 2, and
\* the same slice with one entry more is rejected
C29_Witness ==
  /\ WasNewView
  /\ ViewResult = "Ok"
  /\ nnz(mat) = usize_max \div 2
  /\ At(mat.indptr, 0) = 0
  /\ check_compressed_structure(
       [mat EXCEPT !.indptr = <<0, nnz(mat) + 1>>,
                   !.indices = Append(@, nnz(mat)),
                   !.data = Append(@, 1),
                   !.nrows = IF mat.storage = CSR THEN 1 ELSE @ + 1,
                   !.ncols = IF mat.storage = CSR THEN @ + 1 ELSE 1])
       = "panic"

(* ---------------------- the unchecked vector view ---------------------- *)
\* new_vecview_raw aborts: indptr[1] past the end of the offsets
new_vecview_raw_panics(indptr) == Len(indptr) < 2

\* new_vecview_raw(storage, nrows, ncols, indptr, indices, data): indices
\* and data are the first indptr[1] elements behind the two pointers
new_vecview_raw(storage, rows, cols, indptr, indices, data) ==
  LET nnz_ == At(indptr, 1) IN
  [storage |-> storage,
   nrows   |-> rows,
   ncols   |-> cols,
   indptr  |-> indptr,
   indices |-> Slice(indices, 0, nnz_),
   data    |-> Slice(data, 0, nnz_)]

\* ret = CsMat::new_vecview_raw(...) on the shape, offsets and buffers of
\* mat
NewVecviewRaw ==
  /\ ret' = IF new_vecview_raw_panics(mat.indptr) THEN NoRet
            ELSE new_vecview_raw(mat.storage, mat.nrows, mat.ncols,
                                 mat.indptr, mat.indices, mat.data)
  /\ call' = [op |-> "new_vecview_raw", row |-> 0, col |-> 0, val |-> 0,
              panicked |-> new_vecview_raw_panics(mat.indptr)]
  /\ old' = mat
  /\ UNCHANGED <<mat, ents, handle, iter>>

\* the unchecked view built over every matrix the constructors give
SpecVecview == LookupInit /\ [][NewVecviewRaw]_vars

(* ------------------- claims on the unchecked vector view --------------- *)
\* C30: new_vecview_raw on offsets that are valid for the shape, for any
\* number of outer slices, builds a matrix whose indices and data have
\* nnz() elements, nnz() the last entry of indptr
C30_VecviewLengths ==
  (/\ call.op = "new_vecview_raw"
   /\ check_compressed_structure(mat) = "Ok") =>
    /\ ~call.panicked
    /\ ret.indptr = mat.indptr
    /\ Len(ret.indices) = nnz(ret)
    /\ Len(ret.data) = nnz(ret)

====
